---- MODULE Spec2Model ----
(***************************************************************************)
(* The image load orchestration layer of cornerstone-core/src/imageLoader: *)
(* the scheme registry (imageLoaders, unknownImageLoader), the two load    *)
(* operations (loadImage, loadAndCacheImage), the dispatch to a loader     *)
(* with its event broadcast (loadImageFromImageLoader), and the promises   *)
(* of the LoadObjects the loaders hand back.                               *)
(*                                                                         *)
(* JavaScript runs every exported function to completion, so each call is  *)
(* one action.  What happens between calls (a promise settles, a promise   *)
(* reaction job runs, the cache gets a volume) is an action of its own.    *)
(***************************************************************************)
EXTENDS Integers, Sequences, FiniteSets, TLC

\* ------------------------------------------------------------------ bounds

\* The number of LoadObjects created in a run.
MaxLoads == 2

\* The number of mouseDown events handled in a run.
MaxMouseEvents == 2

\* ------------------------------------------------------------------ values

\* An imageId argument: a string (its characters, in chunks that hold no colon,
\* and ":" for a colon), or one of the two absent values of JavaScript.
Str(s) == [type |-> "string", chars |-> s]
Undefined == [type |-> "undefined", chars |-> << >>]
Null == [type |-> "null", chars |-> << >>]

\* The strings the model calls the load operations with.
StringIds ==
    { Str(<<"wadouri", ":", "a">>),
      Str(<<"a">>),
      Str(<< >>),
      Str(<<"constructor", ":", "a">>) }

ImageIds == StringIds \cup {Undefined, Null}

\* The loader functions a caller can register, and the schemes it registers.
Loaders == {"L1"}
RegSchemes == { << >>, <<"wadouri">> }

\* The options a caller passes; a loader called without them sees undefined.
Options == {"opts"}

\* What an invoked loader does: it throws, or it returns a LoadObject whose
\* promise is pending or already settled.  A slice conversion does not throw.
LoaderBehaviours == {"pending", "fulfilled", "rejected", "throws"}
SliceBehaviours == {"pending", "fulfilled", "rejected"}

\* `imageLoaders = {}` is an ordinary object: a key it does not own is looked up
\* on Object.prototype, where "constructor" (and toString, ...) are defined.
ObjectPrototypeKeys == { <<"constructor">> }

\* The imageIds of the volume the cache holds, in slice order.
VolumeImageIds == << Str(<<"wadouri", ":", "z">>), Str(<<"wadouri", ":", "a">>) >>

EmptyMap == [k \in {} |-> 0]

\* The buttons of a normalized mouseDown event, and the tools there are: one
\* that defines addNewMeasurement and one that does not.
MouseButtons == {1, 2}
Tools == {"Length", "Pan"}
ToolsWithAddNewMeasurement == {"Length"}

\* ------------------------------------------------------------------- state

VARIABLES
    imageLoaders,        \* scheme -> loader: the own properties of the object
    unknownImageLoader,  \* the fallback loader, or "undefined"
    cache,               \* cache façade: imageId -> index in loads of its LoadObject
    volume,              \* cache façade: the volume's loadStatus, "loading" or "loaded"
    loads,               \* every LoadObject a loader or the volume returned, with its promise
    events,              \* what triggerEvent has dispatched on eventTarget, in order
    lastCall,            \* the latest call of an exported function and its result
    requested,           \* the imageId the calling code of this run asks for
    state,               \* the tools' store: isToolLocked, isMultiPartToolActive
    activeTools,         \* mouse button -> the active tool bound to it, or "undefined"
    mouseLog             \* each mouseDownActivate(evt) so far, with the tool calls it made

\* What the mouse event dispatcher reads and writes.
mouseVars == <<state, activeTools, mouseLog>>

vars ==
    <<imageLoaders, unknownImageLoader, cache, volume, loads, events, lastCall,
      requested, mouseVars>>

NoCall ==
    [op |-> "none", imageId |-> Undefined, options |-> "undefined",
     outcome |-> "none", error |-> "none", promise |-> 0, trace |-> << >>,
     args |-> << >>, ret |-> "undefined"]

Init ==
    /\ imageLoaders = EmptyMap
    /\ unknownImageLoader = "undefined"
    /\ cache = EmptyMap
    /\ volume = "loading"
    /\ loads = << >>
    /\ events = << >>
    /\ lastCall = NoCall
    /\ requested \in ImageIds
    /\ state = [isToolLocked |-> FALSE, isMultiPartToolActive |-> FALSE]
    /\ activeTools = [button \in MouseButtons |-> "undefined"]
    /\ mouseLog = << >>

\* ------------------------------------------------------- string operations

\* String.prototype.indexOf: the 0-based place of the first c, or -1.
indexOf(s, c) ==
    IF \E i \in 1..Len(s) : s[i] = c
    THEN (CHOOSE i \in 1..Len(s) : s[i] = c /\ \A j \in 1..(i - 1) : s[j] # c) - 1
    ELSE -1

Clamp(n, len) == IF n < 0 THEN 0 ELSE IF n > len THEN len ELSE n

\* String.prototype.substring: both ends clamped to 0..length and swapped when
\* start > end; the characters from start up to, not including, end.
substring(s, start, end) ==
    LET a == Clamp(start, Len(s))
        b == Clamp(end, Len(s))
        lo == IF a < b THEN a ELSE b
        hi == IF a < b THEN b ELSE a
    IN SubSeq(s, lo + 1, hi)

\* The image loader scheme: wadors:https://image1 => wadors
SchemeOf(chars) == substring(chars, 0, indexOf(chars, ":"))

\* ---------------------------------------------------------- cache façade

getImageLoadObject(imageId) ==
    IF imageId \in DOMAIN cache THEN cache[imageId] ELSE 0

\* The volume's slice index of imageId (0-based), or -1.
VolumeIndexOf(imageId) ==
    IF \E i \in 1..Len(VolumeImageIds) : VolumeImageIds[i] = imageId
    THEN (CHOOSE i \in 1..Len(VolumeImageIds) : VolumeImageIds[i] = imageId) - 1
    ELSE -1

\* {volume, imageIdIndex}, or found = FALSE for undefined.
getVolumeContainingImageId(imageId) ==
    IF VolumeIndexOf(imageId) >= 0
    THEN [found |-> TRUE, loaded |-> (volume = "loaded"),
          imageIdIndex |-> VolumeIndexOf(imageId)]
    ELSE [found |-> FALSE, loaded |-> FALSE, imageIdIndex |-> -1]

putImageLoadObject(imageId, obj) ==
    [k \in (DOMAIN cache) \cup {imageId} |-> IF k = imageId THEN obj ELSE cache[k]]

\* ------------------------------------------------------------- LoadObjects

\* The LoadObject an invocation returned, and its promise.  via: what made it
\* (a scheme's loader, the unknown loader, the volume's slice conversion);
\* options: what the loader was given besides the imageId; reactions: the
\* handler pairs attached with promise.then; jobs: reaction jobs queued and not
\* yet run.  A then on a settled promise queues its job at once.
NewLoad(imageId, via, loader, options, index, behaviour, reactions) ==
    [imageId |-> imageId, via |-> via, loader |-> loader, options |-> options,
     imageIdIndex |-> index, state |-> behaviour, reactions |-> reactions,
     jobs |-> IF behaviour = "pending" THEN 0 ELSE reactions]

\* The result of one call: how it ended, the promise it returned (an index in
\* loads, 0 for none), the collaborators it called, in order, the LoadObjects
\* it got, and whether it stored its LoadObject in the cache.
Returned(promise, trace, created, put) ==
    [outcome |-> "returned", error |-> "none", promise |-> promise,
     trace |-> trace, created |-> created, put |-> put]

Threw(error, trace) ==
    [outcome |-> "threw", error |-> error, promise |-> 0,
     trace |-> trace, created |-> << >>, put |-> FALSE]

\* imageLoaders[scheme]: the own property, else what Object.prototype has.
LookupLoader(scheme) ==
    IF scheme \in DOMAIN imageLoaders THEN imageLoaders[scheme]
    ELSE IF scheme \in ObjectPrototypeKeys THEN "inherited"
    ELSE "undefined"

\* ------------------------------------------------------------------ dispatch

\* loadImageFromImageLoader(imageId, options), the loader doing `behaviour`.
loadImageFromImageLoader(imageId, options, behaviour) ==
    IF imageId.type # "string"
    THEN \* imageId.indexOf of null
         Threw("TypeError", << >>)
    ELSE
    LET scheme == SchemeOf(imageId.chars)
        loader == LookupLoader(scheme)
    IN  IF loader = "undefined"
        THEN IF unknownImageLoader # "undefined"
             THEN \* return unknownImageLoader(imageId)
                  IF behaviour = "throws"
                  THEN Threw("loader threw", <<"unknownImageLoader">>)
                  ELSE Returned(Len(loads) + 1, <<"unknownImageLoader">>,
                           <<NewLoad(imageId, "unknown", unknownImageLoader,
                                     "undefined", -1, behaviour, 0)>>,
                           FALSE)
             ELSE Threw("no image loader", << >>)
        ELSE IF loader = "inherited"
        THEN \* a function of Object.prototype returns no LoadObject, and
             \* imageLoadObject.promise.then is a TypeError
             Threw("TypeError", <<"Object.prototype">>)
        ELSE \* imageLoadObject = loader(imageId, options), then promise.then(...)
             IF behaviour = "throws"
             THEN Threw("loader threw", <<"loader">>)
             ELSE Returned(Len(loads) + 1, <<"loader">>,
                      <<NewLoad(imageId, "scheme", loader, options, -1, behaviour, 1)>>,
                      FALSE)

\* volume.convertToCornerstoneImage(imageId, imageIdIndex)
convertToCornerstoneImage(imageId, imageIdIndex, behaviour) ==
    NewLoad(imageId, "slice", "volume", "undefined", imageIdIndex, behaviour, 0)

\* ------------------------------------------------- the two path conditions

\* A cache check that never finds the LoadObject.
InImageCacheNever(imageLoadObject) == FALSE

\* imageLoadObject !== undefined
InImageCache(imageLoadObject) == imageLoadObject # 0

\* A volume check that does not look at loadStatus.loaded.
VolumeUsableIgnoringLoaded(cachedVolumeInfo) == cachedVolumeInfo.found

\* cachedVolumeInfo && cachedVolumeInfo.volume.loadStatus.loaded
VolumeUsable(cachedVolumeInfo) == cachedVolumeInfo.found /\ cachedVolumeInfo.loaded

\* ------------------------------------------------------------- loadImage

\* A loadImage that stores what it dispatched, as loadAndCacheImage does.
loadImageCaching(imageId, options, behaviour) ==
    IF imageId = Undefined
    THEN Threw("imageId must not be undefined", << >>)
    ELSE IF InImageCache(getImageLoadObject(imageId))
    THEN Returned(getImageLoadObject(imageId), <<"getImageLoadObject">>, << >>, FALSE)
    ELSE
    LET cachedVolumeInfo == getVolumeContainingImageId(imageId)
        lookups == <<"getImageLoadObject", "getVolumeContainingImageId">>
    IN  IF VolumeUsable(cachedVolumeInfo)
        THEN Returned(Len(loads) + 1,
                      lookups \o <<"convertToCornerstoneImage">>,
                      <<convertToCornerstoneImage(imageId,
                            cachedVolumeInfo.imageIdIndex, behaviour)>>,
                      FALSE)
        ELSE LET r == loadImageFromImageLoader(imageId, options, behaviour)
             IN [r EXCEPT !.trace = lookups \o @, !.put = (r.outcome = "returned")]

\* A loadImage that attaches the broadcasting handlers on the volume path too.
loadImageBroadcastingSlices(imageId, options, behaviour) ==
    IF imageId = Undefined
    THEN Threw("imageId must not be undefined", << >>)
    ELSE IF InImageCache(getImageLoadObject(imageId))
    THEN Returned(getImageLoadObject(imageId), <<"getImageLoadObject">>, << >>, FALSE)
    ELSE
    LET cachedVolumeInfo == getVolumeContainingImageId(imageId)
        lookups == <<"getImageLoadObject", "getVolumeContainingImageId">>
    IN  IF VolumeUsable(cachedVolumeInfo)
        THEN Returned(Len(loads) + 1,
                      lookups \o <<"convertToCornerstoneImage">>,
                      <<NewLoad(imageId, "slice", "volume", "undefined",
                                cachedVolumeInfo.imageIdIndex, behaviour, 1)>>,
                      FALSE)
        ELSE LET r == loadImageFromImageLoader(imageId, options, behaviour)
             IN [r EXCEPT !.trace = lookups \o @]

loadImage(imageId, options, behaviour) ==
    IF imageId = Undefined
    THEN Threw("imageId must not be undefined", << >>)
    ELSE IF InImageCache(getImageLoadObject(imageId))
    THEN Returned(getImageLoadObject(imageId), <<"getImageLoadObject">>, << >>, FALSE)
    ELSE
    LET cachedVolumeInfo == getVolumeContainingImageId(imageId)
        lookups == <<"getImageLoadObject", "getVolumeContainingImageId">>
    IN  IF VolumeUsable(cachedVolumeInfo)
        THEN Returned(Len(loads) + 1,
                      lookups \o <<"convertToCornerstoneImage">>,
                      <<convertToCornerstoneImage(imageId,
                            cachedVolumeInfo.imageIdIndex, behaviour)>>,
                      FALSE)
        ELSE LET r == loadImageFromImageLoader(imageId, options, behaviour)
             IN [r EXCEPT !.trace = lookups \o @]

\* ------------------------------------------------------ loadAndCacheImage

\* A loadAndCacheImage that forgets step 4, the putImageLoadObject.
loadAndCacheImageNoPut(imageId, options, behaviour) ==
    IF imageId = Undefined
    THEN Threw("imageId must not be undefined", << >>)
    ELSE IF InImageCache(getImageLoadObject(imageId))
    THEN Returned(getImageLoadObject(imageId), <<"getImageLoadObject">>, << >>, FALSE)
    ELSE
    LET cachedVolumeInfo == getVolumeContainingImageId(imageId)
        lookups == <<"getImageLoadObject", "getVolumeContainingImageId">>
    IN  IF VolumeUsable(cachedVolumeInfo)
        THEN Returned(Len(loads) + 1,
                      lookups \o <<"convertToCornerstoneImage">>,
                      <<convertToCornerstoneImage(imageId,
                            cachedVolumeInfo.imageIdIndex, behaviour)>>,
                      FALSE)
        ELSE LET r == loadImageFromImageLoader(imageId, options, behaviour)
             IN [r EXCEPT !.trace = lookups \o @]

\* A loadAndCacheImage that stores a dispatched LoadObject only when its result
\* is known, that is when its promise has settled by the time of the return.
loadAndCacheImageLatePut(imageId, options, behaviour) ==
    IF imageId = Undefined
    THEN Threw("imageId must not be undefined", << >>)
    ELSE IF InImageCache(getImageLoadObject(imageId))
    THEN Returned(getImageLoadObject(imageId), <<"getImageLoadObject">>, << >>, FALSE)
    ELSE
    LET cachedVolumeInfo == getVolumeContainingImageId(imageId)
        lookups == <<"getImageLoadObject", "getVolumeContainingImageId">>
    IN  IF VolumeUsable(cachedVolumeInfo)
        THEN Returned(Len(loads) + 1,
                      lookups \o <<"convertToCornerstoneImage", "putImageLoadObject">>,
                      <<convertToCornerstoneImage(imageId,
                            cachedVolumeInfo.imageIdIndex, behaviour)>>,
                      TRUE)
        ELSE LET r == loadImageFromImageLoader(imageId, options, behaviour)
             IN IF r.outcome = "threw"
                THEN [r EXCEPT !.trace = lookups \o @]
                ELSE IF behaviour = "pending"
                THEN [r EXCEPT !.trace = lookups \o @]
                ELSE [r EXCEPT !.trace = lookups \o @ \o <<"putImageLoadObject">>,
                               !.put = TRUE]

\* A loadAndCacheImage that stores what the dispatch gave it in a finally
\* block, so also when the dispatch threw and gave it nothing.
loadAndCacheImagePutOnThrow(imageId, options, behaviour) ==
    IF imageId = Undefined
    THEN Threw("imageId must not be undefined", << >>)
    ELSE IF InImageCache(getImageLoadObject(imageId))
    THEN Returned(getImageLoadObject(imageId), <<"getImageLoadObject">>, << >>, FALSE)
    ELSE
    LET cachedVolumeInfo == getVolumeContainingImageId(imageId)
        lookups == <<"getImageLoadObject", "getVolumeContainingImageId">>
    IN  IF VolumeUsable(cachedVolumeInfo)
        THEN Returned(Len(loads) + 1,
                      lookups \o <<"convertToCornerstoneImage", "putImageLoadObject">>,
                      <<convertToCornerstoneImage(imageId,
                            cachedVolumeInfo.imageIdIndex, behaviour)>>,
                      TRUE)
        ELSE LET r == loadImageFromImageLoader(imageId, options, behaviour)
             IN [r EXCEPT !.trace = lookups \o @ \o <<"putImageLoadObject">>,
                          !.put = TRUE]

loadAndCacheImage(imageId, options, behaviour) ==
    IF imageId = Undefined
    THEN Threw("imageId must not be undefined", << >>)
    ELSE IF InImageCache(getImageLoadObject(imageId))
    THEN Returned(getImageLoadObject(imageId), <<"getImageLoadObject">>, << >>, FALSE)
    ELSE
    LET cachedVolumeInfo == getVolumeContainingImageId(imageId)
        lookups == <<"getImageLoadObject", "getVolumeContainingImageId">>
    IN  IF VolumeUsable(cachedVolumeInfo)
        THEN Returned(Len(loads) + 1,
                      lookups \o <<"convertToCornerstoneImage", "putImageLoadObject">>,
                      <<convertToCornerstoneImage(imageId,
                            cachedVolumeInfo.imageIdIndex, behaviour)>>,
                      TRUE)
        ELSE LET r == loadImageFromImageLoader(imageId, options, behaviour)
             IN IF r.outcome = "threw"
                THEN [r EXCEPT !.trace = lookups \o @]
                ELSE [r EXCEPT !.trace = lookups \o @ \o <<"putImageLoadObject">>,
                               !.put = TRUE]

\* ----------------------------------------------------------------- actions

\* A call of op with result r: the LoadObjects it got exist from now on, the
\* cache holds its LoadObject if the call stored it, and the caller sees r.
Call(op, imageId, options, r) ==
    /\ Len(loads) + Len(r.created) <= MaxLoads
    /\ loads' = loads \o r.created
    /\ cache' = IF r.put THEN putImageLoadObject(imageId, r.promise) ELSE cache
    /\ lastCall' = [op |-> op, imageId |-> imageId, options |-> options,
                    outcome |-> r.outcome, error |-> r.error, promise |-> r.promise,
                    trace |-> r.trace, args |-> << >>, ret |-> "undefined"]
    /\ UNCHANGED <<imageLoaders, unknownImageLoader, volume, events, requested,
                   mouseVars>>

\* What the collaborator a call reaches can do: the slice conversion when the
\* imageId is in the loaded volume, else a loader.
Behaviours(imageId) ==
    IF VolumeUsable(getVolumeContainingImageId(imageId))
    THEN SliceBehaviours
    ELSE LoaderBehaviours

LoadImage ==
    \E options \in Options, behaviour \in Behaviours(requested) :
        Call("loadImage", requested, options,
             loadImage(requested, options, behaviour))

LoadAndCacheImage ==
    \E options \in Options, behaviour \in Behaviours(requested) :
        Call("loadAndCacheImage", requested, options,
             loadAndCacheImage(requested, options, behaviour))

\* What the caller of a registry function sees: its arguments and its result.
RegistryCall(op, args, ret) ==
    lastCall' = [NoCall EXCEPT !.op = op, !.outcome = "returned",
                               !.args = args, !.ret = ret]

\* A registerImageLoader that keeps the loader a scheme already has.
registerImageLoaderFirstWins(scheme, imageLoader) ==
    [k \in (DOMAIN imageLoaders) \cup {scheme} |->
        IF k \in DOMAIN imageLoaders THEN imageLoaders[k] ELSE imageLoader]

\* imageLoaders[scheme] = imageLoader
registerImageLoader(scheme, imageLoader) ==
    [k \in (DOMAIN imageLoaders) \cup {scheme} |->
        IF k = scheme THEN imageLoader ELSE imageLoaders[k]]

RegisterImageLoaderCall(scheme, imageLoader) ==
    /\ imageLoaders' = registerImageLoader(scheme, imageLoader)
    /\ RegistryCall("registerImageLoader", <<scheme, imageLoader>>, "undefined")
    /\ UNCHANGED <<unknownImageLoader, cache, volume, loads, events, requested,
                   mouseVars>>

RegisterImageLoader ==
    \E scheme \in RegSchemes, imageLoader \in Loaders :
        RegisterImageLoaderCall(scheme, imageLoader)

\* A registerUnknownImageLoader that hands back the loader it was given.
registerUnknownImageLoaderReturnsNew(imageLoader) ==
    [unknownImageLoader |-> imageLoader, oldImageLoader |-> imageLoader]

\* Installs imageLoader as the fallback and returns the one before it.
registerUnknownImageLoader(imageLoader) ==
    [unknownImageLoader |-> imageLoader, oldImageLoader |-> unknownImageLoader]

RegisterUnknownImageLoaderCall(imageLoader) ==
    LET r == registerUnknownImageLoader(imageLoader)
    IN /\ unknownImageLoader' = r.unknownImageLoader
       /\ RegistryCall("registerUnknownImageLoader", <<imageLoader>>, r.oldImageLoader)
       /\ UNCHANGED <<imageLoaders, cache, volume, loads, events, requested,
                      mouseVars>>

RegisterUnknownImageLoader ==
    \E imageLoader \in Loaders : RegisterUnknownImageLoaderCall(imageLoader)

\* Deletes every own key of imageLoaders and empties the fallback slot.
UnregisterAllImageLoaders ==
    /\ imageLoaders' = EmptyMap
    /\ unknownImageLoader' = "undefined"
    /\ RegistryCall("unregisterAllImageLoaders", << >>, "undefined")
    /\ UNCHANGED <<cache, volume, loads, events, requested, mouseVars>>

\* --------------------------------------------------- promises and events

\* The loader's work ends: a pending promise is fulfilled or rejected, and each
\* handler pair attached to it gets its reaction job queued.
SettlePromise ==
    \E i \in 1..Len(loads), result \in {"fulfilled", "rejected"} :
        /\ loads[i].state = "pending"
        /\ loads' = [loads EXCEPT ![i].state = result, ![i].jobs = loads[i].reactions]
        /\ UNCHANGED <<imageLoaders, unknownImageLoader, cache, volume, events,
                       lastCall, requested, mouseVars>>

\* triggerEvent(eventTarget, type, detail)
triggerEvent(type, detail) == Append(events, [type |-> type, detail |-> detail])

\* A handler pair whose rejection handler announces a loaded image as well.
BroadcastLoadedOnly(i) ==
    triggerEvent("IMAGE_LOADED", [image |-> i, imageId |-> Undefined, error |-> 0])

\* The handler pair of loadImageFromImageLoader, run for load i: the image and
\* the error are named by the load they come from.
Broadcast(i) ==
    IF loads[i].state = "fulfilled"
    THEN triggerEvent("IMAGE_LOADED",
             [image |-> i, imageId |-> Undefined, error |-> 0])
    ELSE triggerEvent("IMAGE_LOAD_FAILED",
             [image |-> 0, imageId |-> loads[i].imageId, error |-> i])

\* A reaction job whose rejection handler settles what the caller holds: the
\* caller was given the promise that then() returns, not the loader's.
RunReactionAlteringOutcome ==
    \E i \in 1..Len(loads) :
        /\ loads[i].jobs > 0
        /\ events' = Broadcast(i)
        /\ loads' = [loads EXCEPT ![i].jobs = @ - 1, ![i].state = "fulfilled"]
        /\ UNCHANGED <<imageLoaders, unknownImageLoader, cache, volume, lastCall,
                       requested, mouseVars>>

\* A queued reaction job runs.
RunReaction ==
    \E i \in 1..Len(loads) :
        /\ loads[i].jobs > 0
        /\ events' = Broadcast(i)
        /\ loads' = [loads EXCEPT ![i].jobs = @ - 1]
        /\ UNCHANGED <<imageLoaders, unknownImageLoader, cache, volume, lastCall,
                       requested, mouseVars>>

\* The volume the cache holds finishes loading.
VolumeLoaded ==
    /\ volume = "loading"
    /\ volume' = "loaded"
    /\ UNCHANGED <<imageLoaders, unknownImageLoader, cache, loads, events, lastCall,
                   requested, mouseVars>>

Next ==
    \/ LoadImage
    \/ LoadAndCacheImage
    \/ RegisterImageLoader
    \/ RegisterUnknownImageLoader
    \/ UnregisterAllImageLoaders
    \/ SettlePromise
    \/ RunReaction
    \/ VolumeLoaded

Spec == Init /\ [][Next]_vars

\* Reaction jobs sit in the host's microtask queue, which always drains.
FairSpec == Spec /\ WF_vars(RunReaction)

\* ------------------------------------------------- two loaders per scheme

\* The registry with two loader functions to tell apart, asked for one imageId
\* with a scheme: what registerImageLoader overwrites and what
\* registerUnknownImageLoader hands back can then differ from what was given.
RegistryLoaders == {"L1", "L2"}

RegistryInit == Init /\ requested = Str(<<"wadouri", ":", "a">>)

RegisterAnyImageLoader ==
    \E scheme \in RegSchemes, imageLoader \in RegistryLoaders :
        RegisterImageLoaderCall(scheme, imageLoader)

RegisterAnyUnknownImageLoader ==
    \E imageLoader \in RegistryLoaders : RegisterUnknownImageLoaderCall(imageLoader)

\* The registry functions and loadImage, which dispatches on every call while
\* the volume has not loaded.  What happens to a LoadObject after its call (its
\* promise settles, its reaction job runs) touches neither the registry nor
\* the caller's view of a call, and is left to Spec, as is loadAndCacheImage,
\* which dispatches through the same loadImageFromImageLoader.
RegistryNext ==
    \/ LoadImage
    \/ RegisterAnyImageLoader
    \/ RegisterAnyUnknownImageLoader
    \/ UnregisterAllImageLoaders

RegistrySpec == RegistryInit /\ [][RegistryNext]_vars

\* -------------------------------------------------------- mouseDownActivate

\* What the loader layer reads and writes.
loaderVars ==
    <<imageLoaders, unknownImageLoader, cache, volume, loads, events, lastCall,
      requested>>

\* getActiveToolForMouseEvent(evt): the active tool bound to the event's
\* button, if there is one.
getActiveToolForMouseEvent(evt) == activeTools[evt.button]

AddNewMeasurement(activeTool, evt) ==
    [tool |-> activeTool, method |-> "addNewMeasurement", args |-> <<evt, "mouse">>]

\* A mouseDownActivate that does not look at state.isMultiPartToolActive.
mouseDownActivateIgnoringMultiPart(evt) ==
    IF state.isToolLocked
    THEN << >>
    ELSE LET activeTool == getActiveToolForMouseEvent(evt)
         IN IF activeTool = "undefined"
            THEN << >>
            ELSE IF activeTool \in ToolsWithAddNewMeasurement
            THEN <<AddNewMeasurement(activeTool, evt)>>
            ELSE << >>

\* mouseDownActivate(evt): the calls it makes on the active tool, in order.
mouseDownActivate(evt) ==
    IF state.isToolLocked
    THEN << >>
    ELSE LET activeTool == getActiveToolForMouseEvent(evt)
         IN IF activeTool = "undefined"
            THEN << >>
            ELSE IF state.isMultiPartToolActive
            THEN << >>
            ELSE IF activeTool \in ToolsWithAddNewMeasurement
            THEN <<AddNewMeasurement(activeTool, evt)>>
            ELSE << >>

\* The dispatcher hands a mouseDown event nobody consumed to mouseDownActivate.
MouseDownActivate ==
    \E button \in MouseButtons :
        LET evt == [id |-> Len(mouseLog) + 1, button |-> button]
        IN /\ Len(mouseLog) < MaxMouseEvents
           /\ mouseLog' = Append(mouseLog, [evt |-> evt, calls |-> mouseDownActivate(evt)])
           /\ UNCHANGED <<state, activeTools, loaderVars>>

\* A tool takes or releases the lock for an interaction of its own.
SetToolLocked ==
    /\ state' = [state EXCEPT !.isToolLocked = ~@]
    /\ UNCHANGED <<activeTools, mouseLog, loaderVars>>

\* A multi-part tool starts or ends its interaction.
SetMultiPartToolActive ==
    /\ state' = [state EXCEPT !.isMultiPartToolActive = ~@]
    /\ UNCHANGED <<activeTools, mouseLog, loaderVars>>

\* A tool is made active on a button, or the button loses its tool.
SetActiveTool ==
    \E button \in MouseButtons, tool \in Tools \cup {"undefined"} :
        /\ activeTools[button] # tool
        /\ activeTools' = [activeTools EXCEPT ![button] = tool]
        /\ UNCHANGED <<state, mouseLog, loaderVars>>

MouseInit == Init /\ requested = Undefined

MouseNext ==
    \/ MouseDownActivate
    \/ SetToolLocked
    \/ SetMultiPartToolActive
    \/ SetActiveTool

MouseSpec == MouseInit /\ [][MouseNext]_vars

\* ------------------------------------------------------ claims: vocabulary

LoadOps == {"loadImage", "loadAndCacheImage"}

Settled(i) == i <= Len(loads) /\ loads[i].state \in {"fulfilled", "rejected"}

\* The events broadcast for load i, by their places in events.
EventsOf(i) ==
    {k \in 1..Len(events) : events[k].detail.image = i \/ events[k].detail.error = i}

\* The one event that matches the outcome of load i.
MatchingEvent(i) ==
    IF loads[i].state = "fulfilled"
    THEN [type |-> "IMAGE_LOADED",
          detail |-> [image |-> i, imageId |-> Undefined, error |-> 0]]
    ELSE [type |-> "IMAGE_LOAD_FAILED",
          detail |-> [image |-> 0, imageId |-> loads[i].imageId, error |-> i]]

\* Load i, made by `via`, has at most one event; none while its promise is
\* pending; and once it has settled, either its one matching event or the
\* reaction job that will broadcast it.
OneOutcome(i, via) ==
    (i <= Len(loads) /\ loads[i].via = via) =>
        /\ Cardinality(EventsOf(i)) <= 1
        /\ loads[i].state = "pending" => EventsOf(i) = {} /\ loads[i].jobs = 0
        /\ Settled(i) =>
             /\ Cardinality(EventsOf(i)) + loads[i].jobs = 1
             /\ \A k \in EventsOf(i) : events[k] = MatchingEvent(i)

\* Load i, made by `via`, has had exactly its one matching event.
Announced(i, via) ==
    /\ i <= Len(loads) /\ loads[i].via = via /\ Settled(i)
    /\ Cardinality(EventsOf(i)) = 1
    /\ \A k \in EventsOf(i) : events[k] = MatchingEvent(i)

\* No settled load dispatched through `via` is still waiting for its event.
AllAnnounced(via) ==
    \A i \in 1..Len(loads) :
        (Settled(i) /\ loads[i].via = via) => Announced(i, via)

\* -------------------------------------------------------------------- C1

\* C1: a load dispatched to the loader registered for the identifier's scheme
\* has no event while its promise is pending, never more than one event, and
\* once the promise has settled exactly one event is eventually emitted, which
\* is IMAGE_LOADED with the image on fulfilment and IMAGE_LOAD_FAILED with the
\* identifier and the error on rejection.  Events are only ever appended, so
\* the eventuality is that settled loads still waiting for their event always
\* lead to a state where none is waiting.
C1_OneEventPerSchemeDispatch ==
    /\ [](\A i \in 1..MaxLoads : OneOutcome(i, "scheme"))
    /\ ~AllAnnounced("scheme") ~> AllAnnounced("scheme")

\* A rejected load of a scheme's loader with its one IMAGE_LOAD_FAILED event,
\* beside a fulfilled one with its one IMAGE_LOADED event.
C1_Witness ==
    \E i, j \in 1..Len(loads) :
        /\ Announced(i, "scheme") /\ loads[i].state = "rejected"
        /\ Announced(j, "scheme") /\ loads[j].state = "fulfilled"

\* -------------------------------------------------------------------- C2

\* C2: a load dispatched to the fallback (unknown) loader has, like a scheme's
\* load, no event while pending, at most one event, and exactly one matching
\* event once its promise has settled.
C2_OneEventPerFallbackDispatch ==
    /\ [](\A i \in 1..MaxLoads : OneOutcome(i, "unknown"))
    /\ ~AllAnnounced("unknown") ~> AllAnnounced("unknown")

\* ------------------------------------------- claims: calls and their traces

\* This step is a call of loadImage or loadAndCacheImage for imageId.
LoadCallStep(imageId) ==
    /\ lastCall' # lastCall
    /\ lastCall'.op \in LoadOps
    /\ lastCall'.imageId = imageId

Lookups == <<"getImageLoadObject", "getVolumeContainingImageId">>

Has(trace, what) == \E k \in 1..Len(trace) : trace[k] = what

\* The call invoked a loader: a scheme's, the fallback, or what imageLoaders
\* inherits from Object.prototype.
InvokedLoader(trace) ==
    \/ Has(trace, "loader")
    \/ Has(trace, "unknownImageLoader")
    \/ Has(trace, "Object.prototype")

\* The call got past both lookups and took neither the cache nor the volume path.
ReachedDispatch(trace) ==
    /\ Len(trace) >= 2
    /\ SubSeq(trace, 1, 2) = Lookups
    /\ ~Has(trace, "convertToCornerstoneImage")

\* The LoadObjects made for imageId.
LoadsOf(imageId) == {i \in 1..Len(loads) : loads[i].imageId = imageId}

\* -------------------------------------------------------------------- C3

\* C3: once loadAndCacheImage has returned normally, the cache holds under the
\* identifier the LoadObject whose promise was returned; and while the cache
\* holds a LoadObject for an identifier the entry stays the same object, every
\* loadImage or loadAndCacheImage call for it returns that promise, and no
\* further LoadObject is made for it (no loader, no convertToCornerstoneImage).
C3_Stored ==
    (lastCall.op = "loadAndCacheImage" /\ lastCall.outcome = "returned") =>
        /\ lastCall.promise \in 1..Len(loads)
        /\ getImageLoadObject(lastCall.imageId) = lastCall.promise
        /\ loads[lastCall.promise].imageId = lastCall.imageId

C3_Kept ==
    \A imageId \in DOMAIN cache :
        /\ imageId \in DOMAIN cache' /\ cache'[imageId] = cache[imageId]
        /\ LoadsOf(imageId)' = LoadsOf(imageId)
        /\ LoadCallStep(imageId) =>
             /\ lastCall'.promise = cache[imageId]
             /\ ~InvokedLoader(lastCall'.trace)
             /\ ~Has(lastCall'.trace, "convertToCornerstoneImage")

C3_CachedBeforeReturn == []C3_Stored /\ [][C3_Kept]_vars

\* A loadImage call after a loadAndCacheImage: it returned the one LoadObject
\* there is, a scheme loader's with its promise still pending, from the cache.
C3_Witness ==
    /\ lastCall.op = "loadImage" /\ lastCall.outcome = "returned"
    /\ lastCall.trace = <<"getImageLoadObject">>
    /\ Len(loads) = 1 /\ lastCall.promise = 1
    /\ loads[1].via = "scheme" /\ loads[1].state = "pending"
    /\ getImageLoadObject(lastCall.imageId) = 1

\* -------------------------------------------------------------------- C4

\* The latest call was a loadAndCacheImage that dispatched to a loader and
\* returned, its promise is still pending, and this step is the next call,
\* again a loadAndCacheImage for the same identifier.
C4_SecondCall ==
    /\ lastCall.op = "loadAndCacheImage" /\ lastCall.outcome = "returned"
    /\ ReachedDispatch(lastCall.trace)
    /\ loads[lastCall.promise].state = "pending"
    /\ LoadCallStep(lastCall.imageId)
    /\ lastCall'.op = "loadAndCacheImage"

\* C4 as stated: the second of two loadAndCacheImage calls for the same
\* identifier, made before the first call's promise has settled, misses the
\* cache and invokes the loader again.  (Stated for the identifiers that have
\* a scheme before their first colon.)
C4_NotDeduplicated ==
    [][(C4_SecondCall /\ indexOf(lastCall.imageId.chars, ":") > 0) =>
         /\ ReachedDispatch(lastCall'.trace)
         /\ InvokedLoader(lastCall'.trace)
         /\ Len(loads') = Len(loads) + 1]_vars

\* C4 as amended: the second call hits the cache, which the first call filled
\* before it returned: it returns the first call's promise and invokes nothing.
C4_Deduplicated ==
    [][C4_SecondCall =>
         /\ lastCall'.outcome = "returned"
         /\ lastCall'.trace = <<"getImageLoadObject">>
         /\ lastCall'.promise = lastCall.promise
         /\ loads' = loads
         /\ cache' = cache]_vars

\* A second loadAndCacheImage served from the cache while the only LoadObject,
\* which a loader made, is still pending.
C4_Witness ==
    /\ lastCall.op = "loadAndCacheImage" /\ lastCall.outcome = "returned"
    /\ lastCall.trace = <<"getImageLoadObject">>
    /\ Len(loads) = 1 /\ lastCall.promise = 1
    /\ loads[1].via \in {"scheme", "unknown"} /\ loads[1].state = "pending"

\* -------------------------------------------------------------------- C5

\* C5: no loadImage call changes the cache, whatever its path; and a loadImage
\* call that returns for an identifier in neither the cache nor a loaded volume
\* has invoked a loader, which made the one new LoadObject it returns.
C5_Transient ==
    /\ lastCall'.op = "loadImage" => cache' = cache
    /\ \A imageId \in ImageIds :
         ( /\ LoadCallStep(imageId) /\ lastCall'.op = "loadImage"
           /\ lastCall'.outcome = "returned"
           /\ getImageLoadObject(imageId) = 0
           /\ ~VolumeUsable(getVolumeContainingImageId(imageId)) ) =>
             /\ Len(loads') = Len(loads) + 1
             /\ lastCall'.promise = Len(loads')
             /\ loads'[Len(loads')].via \in {"scheme", "unknown"}
             /\ loads'[Len(loads')].imageId = imageId
             /\ InvokedLoader(lastCall'.trace)

C5_LoadImageNeverStores == [][C5_Transient]_vars

\* Two loadImage calls for one identifier have invoked the loader twice, and
\* the cache is still empty.
C5_Witness ==
    /\ lastCall.op = "loadImage" /\ lastCall.outcome = "returned"
    /\ Len(loads) = 2 /\ lastCall.promise = 2
    /\ \A i \in 1..2 : loads[i].via = "scheme" /\ loads[i].imageId = lastCall.imageId
    /\ cache = EmptyMap

\* -------------------------------------------------------------------- C6

\* C6: in every state, for every identifier the cache holds a LoadObject for,
\* loadImage and loadAndCacheImage return that LoadObject's promise after the
\* one call getImageLoadObject: no loader, no convertToCornerstoneImage, no
\* putImageLoadObject; and a call made in such a state leaves loads and the
\* cache as they were.
C6_Hit ==
    \A imageId \in DOMAIN cache :
      \A options \in Options, behaviour \in Behaviours(imageId) :
        LET hit == Returned(cache[imageId], <<"getImageLoadObject">>, << >>, FALSE)
        IN /\ cache[imageId] # 0
           /\ loadImage(imageId, options, behaviour) = hit
           /\ loadAndCacheImage(imageId, options, behaviour) = hit

C6_HitStep ==
    \A imageId \in DOMAIN cache :
        LoadCallStep(imageId) =>
            /\ lastCall'.outcome = "returned"
            /\ lastCall'.promise = cache[imageId]
            /\ lastCall'.trace = <<"getImageLoadObject">>
            /\ loads' = loads
            /\ cache' = cache

C6_CacheHitOnly == []C6_Hit /\ [][C6_HitStep]_vars

\* A cache hit for an identifier of the loaded volume, with no loader registered.
C6_Witness ==
    /\ lastCall.op \in LoadOps /\ lastCall.outcome = "returned"
    /\ lastCall.trace = <<"getImageLoadObject">>
    /\ VolumeUsable(getVolumeContainingImageId(lastCall.imageId))
    /\ imageLoaders = EmptyMap /\ unknownImageLoader = "undefined"

\* -------------------------------------------------------------------- C7

\* C7: a call that misses the image cache takes the volume path if and only if
\* the cache reports a volume containing the identifier whose loaded flag is
\* true.  Then convertToCornerstoneImage(imageId, imageIdIndex) makes the
\* LoadObject returned, with the reported index, and no loader is looked up or
\* invoked and nothing is thrown.  Otherwise the call goes on to dispatch and
\* convertToCornerstoneImage is not called.
C7_Miss(imageId) ==
    LET info == getVolumeContainingImageId(imageId)
        new == loads'[Len(loads')]
    IN IF info.found /\ info.loaded
       THEN /\ lastCall'.outcome = "returned"
            /\ Has(lastCall'.trace, "convertToCornerstoneImage")
            /\ ~InvokedLoader(lastCall'.trace)
            /\ Len(loads') = Len(loads) + 1
            /\ lastCall'.promise = Len(loads')
            /\ new.via = "slice" /\ new.imageId = imageId
            /\ new.imageIdIndex = info.imageIdIndex
       ELSE /\ ReachedDispatch(lastCall'.trace)
            /\ Len(loads') > Len(loads) => new.via # "slice"

C7_Step ==
    \A imageId \in ImageIds \ {Undefined} :
        (LoadCallStep(imageId) /\ getImageLoadObject(imageId) = 0) => C7_Miss(imageId)

C7_VolumePathIffLoaded == [][C7_Step]_vars

\* A slice of the loaded volume returned while the registry is empty.
C7_Witness ==
    /\ lastCall.op \in LoadOps /\ lastCall.outcome = "returned"
    /\ Has(lastCall.trace, "convertToCornerstoneImage")
    /\ loads[lastCall.promise].via = "slice"
    /\ loads[lastCall.promise].imageIdIndex = 1
    /\ imageLoaders = EmptyMap /\ unknownImageLoader = "undefined"

\* -------------------------------------------------------------------- C8

\* C8: a call for a string identifier that reaches dispatch while no loader is
\* registered for its scheme and no fallback is installed throws the no-loader
\* error, and has invoked nothing.  (A registry call would be the latest call,
\* so the registry is as the load call found it.)
C8_NoLoaderThrows ==
    ( /\ lastCall.op \in LoadOps /\ lastCall.imageId.type = "string"
      /\ ReachedDispatch(lastCall.trace)
      /\ SchemeOf(lastCall.imageId.chars) \notin DOMAIN imageLoaders
      /\ unknownImageLoader = "undefined" ) =>
        /\ lastCall.outcome = "threw"
        /\ lastCall.error = "no image loader"
        /\ lastCall.trace = Lookups

\* -------------------------------------------------------------------- C9

\* C9: no LoadObject for an identifier without a colon comes from a loader
\* registered for a scheme.  (Stated for the non-empty identifiers, the ones a
\* caller may pass.)
C9_NoColonNeverSchemeLoader ==
    \A i \in 1..Len(loads) :
        ( /\ Len(loads[i].imageId.chars) > 0
          /\ indexOf(loads[i].imageId.chars, ":") = -1 ) =>
            loads[i].via # "scheme"

\* ------------------------------------------------------------------- C10

\* C10: a call with an absent (undefined, null) or empty identifier throws the
\* programmer error before it has called anything.
C10_AbsentIdentifierFailsFast ==
    ( /\ lastCall.op \in LoadOps
      /\ lastCall.imageId \in {Undefined, Null, Str(<< >>)} ) =>
        /\ lastCall.outcome = "threw"
        /\ lastCall.error = "imageId must not be undefined"
        /\ lastCall.trace = << >>

\* ------------------------------------------------------------------- C11

\* C11: a call that dispatches invokes the loader registered for the scheme
\* before the identifier's first colon if there is one and the fallback only
\* if there is none, exactly once, with the identifier and the options the
\* caller passed, and returns the promise of the LoadObject it got.
C11_Dispatched(imageId) ==
    LET scheme == SchemeOf(imageId.chars)
        new == loads'[Len(loads')]
    IN /\ Len(loads') = Len(loads) + 1
       /\ lastCall'.outcome = "returned"
       /\ lastCall'.promise = Len(loads')
       /\ IF scheme \in DOMAIN imageLoaders
          THEN new.via = "scheme" /\ new.loader = imageLoaders[scheme]
          ELSE new.via = "unknown" /\ new.loader = unknownImageLoader
       /\ new.imageId = imageId
       /\ new.options = lastCall'.options

\* The identifiers with a scheme before their first colon.
SchemedIds == {imageId \in StringIds : indexOf(imageId.chars, ":") > 0}

C11_ResolutionOrder ==
    [][\A imageId \in SchemedIds :
         ( /\ LoadCallStep(imageId)
           /\ ReachedDispatch(lastCall'.trace)
           /\ Len(loads') > Len(loads) ) => C11_Dispatched(imageId)]_vars

\* ------------------------------------------------------------------- C12

\* The registry as unregisterAllImageLoaders leaves it.
RegistryEmpty == imageLoaders = EmptyMap /\ unknownImageLoader = "undefined"

\* C12: unregisterAllImageLoaders leaves no scheme mapping and no fallback,
\* whatever the registry held and however often it is called; and the load
\* call that follows it, for any string identifier with no image-cache hit and
\* no loaded-volume hit, throws the no-loader error and invokes nothing.
C12_AfterUnregisterAll(imageId) ==
    ( /\ lastCall.op = "unregisterAllImageLoaders"
      /\ LoadCallStep(imageId)
      /\ getImageLoadObject(imageId) = 0
      /\ ~VolumeUsable(getVolumeContainingImageId(imageId)) ) =>
        /\ lastCall'.outcome = "threw"
        /\ lastCall'.error = "no image loader"
        /\ lastCall'.trace = Lookups
        /\ loads' = loads

C12_UnregisterAllClears ==
    /\ [](lastCall.op = "unregisterAllImageLoaders" => RegistryEmpty)
    /\ [][\A imageId \in StringIds : C12_AfterUnregisterAll(imageId)]_vars

\* ------------------------------------------------------------------- C13

\* C13: registerUnknownImageLoader(f) installs f and returns the fallback that
\* was installed just before the call: undefined on the first call and on the
\* first call after unregisterAllImageLoaders, else the argument of the
\* registerUnknownImageLoader call before it; registerImageLoader and the load
\* calls leave the fallback slot alone; and the slot holds one loader or none.
C13_Step ==
    /\ lastCall'.op = "registerUnknownImageLoader" =>
          /\ unknownImageLoader' = lastCall'.args[1]
          /\ lastCall'.ret = unknownImageLoader
          /\ lastCall.op = "none" => lastCall'.ret = "undefined"
          /\ lastCall.op = "unregisterAllImageLoaders" => lastCall'.ret = "undefined"
          /\ lastCall.op = "registerUnknownImageLoader" =>
                lastCall'.ret = lastCall.args[1]
    /\ lastCall'.op = "unregisterAllImageLoaders" => unknownImageLoader' = "undefined"
    /\ lastCall'.op \in {"registerImageLoader"} \cup LoadOps =>
          unknownImageLoader' = unknownImageLoader

C13_ReturnsPreviousFallback ==
    /\ [](unknownImageLoader \in RegistryLoaders \cup {"undefined"})
    /\ [][lastCall' # lastCall => C13_Step]_vars

\* registerUnknownImageLoader("L2") has just returned "L1", the argument of
\* the call before it, and "L2" is the fallback now.
C13_Witness ==
    /\ lastCall.op = "registerUnknownImageLoader"
    /\ lastCall.args = <<"L2">> /\ lastCall.ret = "L1"
    /\ unknownImageLoader = "L2"

\* ------------------------------------------------------------------- C14

\* C14: registerImageLoader(S, f) returns without error and leaves f as the
\* loader of S, whatever S had before, with every other scheme's loader and
\* the fallback as they were; no other call but unregisterAllImageLoaders
\* changes a mapping; and a call that dispatches for an identifier whose
\* scheme has a loader invokes the loader the scheme has now, that is the one
\* registered last, f2 and never f1.
C14_Registered ==
    LET S == lastCall'.args[1]
        f == lastCall'.args[2]
    IN /\ lastCall'.outcome = "returned"
       /\ DOMAIN imageLoaders' = (DOMAIN imageLoaders) \cup {S}
       /\ imageLoaders'[S] = f
       /\ \A k \in (DOMAIN imageLoaders) \ {S} : imageLoaders'[k] = imageLoaders[k]
       /\ unknownImageLoader' = unknownImageLoader

C14_DispatchedToLatest(imageId) ==
    LET S == SchemeOf(imageId.chars)
        new == loads'[Len(loads')]
    IN ( /\ LoadCallStep(imageId)
         /\ S \in DOMAIN imageLoaders
         /\ Len(loads') > Len(loads) ) =>
           /\ new.via = "scheme" /\ new.loader = imageLoaders[S]
           /\ ( lastCall.op = "registerImageLoader" /\ lastCall.args[1] = S ) =>
                 new.loader = lastCall.args[2]

C14_Step ==
    /\ lastCall'.op = "registerImageLoader" => C14_Registered
    /\ lastCall'.op \in {"registerUnknownImageLoader"} \cup LoadOps =>
          imageLoaders' = imageLoaders
    /\ \A imageId \in StringIds : C14_DispatchedToLatest(imageId)

C14_LastWriteWins == [][lastCall' # lastCall => C14_Step]_vars

\* Two dispatches for one scheme: the first invoked L1, and after
\* registerImageLoader gave the scheme L2 the second invoked L2, while the
\* other scheme and the fallback kept L1.
C14_Witness ==
    /\ lastCall.op = "loadImage" /\ lastCall.outcome = "returned"
    /\ Len(loads) = 2 /\ lastCall.promise = 2
    /\ loads[1].via = "scheme" /\ loads[1].loader = "L1"
    /\ loads[2].via = "scheme" /\ loads[2].loader = "L2"
    /\ << >> \in DOMAIN imageLoaders /\ imageLoaders[<< >>] = "L1"
    /\ unknownImageLoader = "L1"

\* ------------------------------------------------------------------- C15

\* C15: a loadImage or loadAndCacheImage call emits no event itself, also when
\* the promise of the LoadObject it got is settled already; the promise it
\* returns is that LoadObject's own; an event is emitted by a later step, which
\* makes no LoadObject and leaves every promise, and what the caller was given,
\* as it was; and a settled promise keeps its outcome.
C15_Step ==
    /\ \A imageId \in ImageIds :
          LoadCallStep(imageId) =>
              /\ events' = events
              /\ Len(loads') > Len(loads) =>
                    /\ lastCall'.promise = Len(loads')
                    /\ loads'[Len(loads')].imageId = imageId
                    /\ \A k \in 1..Len(events') :
                          /\ events'[k].detail.image # Len(loads')
                          /\ events'[k].detail.error # Len(loads')
    /\ events' # events =>
          /\ lastCall' = lastCall
          /\ Len(loads') = Len(loads)
          /\ \A i \in 1..Len(loads) : loads'[i].state = loads[i].state
    /\ \A i \in 1..Len(loads) :
          loads[i].state # "pending" => loads'[i].state = loads[i].state

C15_EventsAfterReturn == [][C15_Step]_vars

\* The call has returned the promise of a scheme loader's LoadObject that was
\* rejected already when the loader returned it: its reaction job is queued
\* and no event has been emitted.
C15_Witness ==
    /\ lastCall.op \in LoadOps /\ lastCall.outcome = "returned"
    /\ InvokedLoader(lastCall.trace)
    /\ loads[lastCall.promise].via = "scheme"
    /\ loads[lastCall.promise].state = "rejected"
    /\ loads[lastCall.promise].jobs = 1
    /\ events = << >>

\* ------------------------------------------------------------------- C16

\* C16: handling one mouseDown event, mouseDownActivate calls the active
\* tool's addNewMeasurement(evt, 'mouse') at most once, and only if the store
\* is not locked, an active tool was found for the event, no multi-part tool
\* is active and the tool defines addNewMeasurement; and it leaves
\* state.isToolLocked and state.isMultiPartToolActive as they were.
C16_Handled ==
    LET handled == mouseLog'[Len(mouseLog')]
        evt == handled.evt
        activeTool == activeTools[evt.button]
    IN /\ Len(mouseLog') = Len(mouseLog) + 1
       /\ Len(handled.calls) <= 1
       /\ handled.calls # << >> =>
             /\ ~state.isToolLocked
             /\ activeTool # "undefined"
             /\ ~state.isMultiPartToolActive
             /\ activeTool \in ToolsWithAddNewMeasurement
             /\ handled.calls[1] = [tool |-> activeTool,
                                    method |-> "addNewMeasurement",
                                    args |-> <<evt, "mouse">>]
       /\ state' = state

C16_AddsMeasurementOnlyWhenFree == [][mouseLog' # mouseLog => C16_Handled]_vars

\* One event made the call on the active tool; the next one, on the same
\* button while a multi-part tool was active, made none.
C16_Witness ==
    /\ Len(mouseLog) = 2
    /\ mouseLog[1].evt.button = mouseLog[2].evt.button
    /\ Len(mouseLog[1].calls) = 1
    /\ mouseLog[2].calls = << >>
    /\ state.isMultiPartToolActive /\ ~state.isToolLocked
    /\ activeTools[mouseLog[2].evt.button] \in ToolsWithAddNewMeasurement

\* ------------------------------------------------------------------- C17

\* C17: a loadAndCacheImage call that throws (absent identifier, no loader and
\* no fallback, a loader that throws) has made no putImageLoadObject and no
\* LoadObject, and leaves the cache as it was, with no entry for the
\* identifier; so the loadAndCacheImage call that comes next for the
\* identifier, a loader being registered for its scheme by then, misses the
\* cache and returns what that loader gives it.
C17_Threw ==
    ( lastCall'.op = "loadAndCacheImage" /\ lastCall'.outcome = "threw" ) =>
        /\ ~Has(lastCall'.trace, "putImageLoadObject")
        /\ cache' = cache
        /\ loads' = loads
        /\ lastCall'.imageId \notin DOMAIN cache'

C17_Retry(imageId) ==
    ( /\ imageId \notin DOMAIN cache
      /\ SchemeOf(imageId.chars) \in DOMAIN imageLoaders
      /\ ~VolumeUsable(getVolumeContainingImageId(imageId))
      /\ LoadCallStep(imageId)
      /\ lastCall'.op = "loadAndCacheImage"
      /\ lastCall'.outcome = "returned" ) =>
        /\ Has(lastCall'.trace, "loader")
        /\ Len(loads') = Len(loads) + 1
        /\ loads'[Len(loads')].loader = imageLoaders[SchemeOf(imageId.chars)]
        /\ imageId \in DOMAIN cache' /\ cache'[imageId] = Len(loads')

C17_NoPutOnThrow ==
    /\ []( ( lastCall.op = "loadAndCacheImage" /\ lastCall.outcome = "threw" ) =>
              lastCall.imageId \notin DOMAIN cache )
    /\ [][lastCall' # lastCall =>
            C17_Threw /\ \A imageId \in StringIds : C17_Retry(imageId)]_vars

\* The loader registered for the scheme threw when loadAndCacheImage invoked
\* it, and the cache is empty.
C17_Witness ==
    /\ lastCall.op = "loadAndCacheImage" /\ lastCall.outcome = "threw"
    /\ lastCall.error = "loader threw"
    /\ Has(lastCall.trace, "loader")
    /\ SchemeOf(lastCall.imageId.chars) \in DOMAIN imageLoaders
    /\ cache = EmptyMap

\* ------------------------------------------------------------------- C18

\* The IMAGE_LOAD_FAILED events broadcast for load i.
FailureEventsOf(i) == {k \in EventsOf(i) : events[k].type = "IMAGE_LOAD_FAILED"}

\* The identifiers whose cached LoadObject came from a loader and was rejected.
FailedInCache ==
    {imageId \in DOMAIN cache :
        /\ cache[imageId] \in 1..Len(loads)
        /\ loads[cache[imageId]].via \in {"scheme", "unknown"}
        /\ loads[cache[imageId]].state = "rejected"}

\* C18: a loader's LoadObject that loadAndCacheImage stored and whose promise
\* was rejected stays in the cache; every later loadImage or loadAndCacheImage
\* call for the identifier returns that promise, invokes nothing and emits
\* nothing; and the failed load has exactly one IMAGE_LOAD_FAILED event (the
\* event itself, or the reaction job that is about to emit it) however often
\* the identifier is requested.
C18_OneFailure ==
    \A imageId \in FailedInCache :
        /\ Cardinality(FailureEventsOf(cache[imageId])) + loads[cache[imageId]].jobs = 1
        /\ EventsOf(cache[imageId]) = FailureEventsOf(cache[imageId])

C18_Kept ==
    \A imageId \in FailedInCache :
        /\ imageId \in DOMAIN cache' /\ cache'[imageId] = cache[imageId]
        /\ loads'[cache[imageId]].state = "rejected"
        /\ LoadCallStep(imageId) =>
              /\ lastCall'.outcome = "returned"
              /\ lastCall'.promise = cache[imageId]
              /\ ~InvokedLoader(lastCall'.trace)
              /\ loads' = loads
              /\ events' = events

C18_OneFailureEventPerFailedLoad == []C18_OneFailure /\ [][C18_Kept]_vars

\* ------------------------------------------------------------------- C19

\* The LoadObjects that loader invocations returned.
LoaderLoads == {i \in 1..Len(loads) : loads[i].via \in {"scheme", "unknown"}}

\* The load an event was broadcast for.
LoadOfEvent(k) == events[k].detail.image + events[k].detail.error

\* C19: a call that returns has taken exactly one of three paths: the image
\* cache (no LoadObject made), convertToCornerstoneImage on the loaded volume
\* (one slice LoadObject made), or one loader invocation (one loader
\* LoadObject made); no call emits an event itself; there are never more
\* events than loader invocations; and every event is for a LoadObject a
\* loader returned, never for a slice, whatever became of the slice's promise.
C19_Events ==
    /\ Len(events) <= Cardinality(LoaderLoads)
    /\ \A k \in 1..Len(events) : LoadOfEvent(k) \in LoaderLoads

C19_Path(imageId) ==
    LET trace == lastCall'.trace
        made == Len(loads') - Len(loads)
        new == loads'[Len(loads')]
        stored == IF lastCall'.op = "loadAndCacheImage"
                  THEN <<"putImageLoadObject">> ELSE << >>
    IN \/ /\ trace = <<"getImageLoadObject">>
          /\ made = 0 /\ loads' = loads
          /\ lastCall'.promise = getImageLoadObject(imageId)
       \/ /\ trace = Lookups \o <<"convertToCornerstoneImage">> \o stored
          /\ made = 1 /\ new.via = "slice"
          /\ lastCall'.promise = Len(loads')
       \/ /\ trace \in { Lookups \o <<"loader">> \o stored,
                          Lookups \o <<"unknownImageLoader">> \o stored }
          /\ made = 1 /\ new.via \in {"scheme", "unknown"}
          /\ lastCall'.promise = Len(loads')

C19_Step ==
    \A imageId \in ImageIds :
        LoadCallStep(imageId) =>
            /\ events' = events
            /\ lastCall'.outcome = "returned" => C19_Path(imageId)

C19_EventsOnlyFromLoaders == []C19_Events /\ [][C19_Step]_vars

\* A loader's LoadObject with its one event, and after it a slice of the
\* loaded volume whose promise was rejected, with none.
C19_Witness ==
    /\ Len(loads) = 2 /\ Len(events) = 1
    /\ Announced(1, "scheme")
    /\ loads[2].via = "slice" /\ loads[2].state = "rejected"
    /\ EventsOf(2) = {}
    /\ lastCall.op \in LoadOps /\ lastCall.promise = 2

====
